---- MODULE Spec2Model ----
(***************************************************************************)
(* A model of the Markdown-to-HTML converter of lab1: the parser           *)
(* (markdownParser.js), the HTML generator (htmlGenerator.js) and the      *)
(* calls a client makes on them; and of the smart home of lab2: the        *)
(* devices, the HomeManager and the SceneMode.                             *)
(*                                                                         *)
(* A JavaScript string is a sequence of one-character strings.  A          *)
(* JavaScript value is a record tagged by the field t (its typeof, with    *)
(* null and array told apart), its payload in a field named after its     *)
(* kind; a thrown TypeError is the value TypeError.                        *)
(***************************************************************************)
EXTENDS Integers, Sequences, FiniteSets, TLC

VARIABLES
    markdownText,   \* the argument of parseMarkdown (any JavaScript value)
    options,        \* the options object handed to generateHtml
    elements,       \* the element array handed to the generator
    html,           \* what generateHtml returned (Undefined: not called yet)
    fragment,       \* what generateHtmlFragment returned (Undefined: not called yet)
    pc,             \* "start": nothing called yet; "parsed": elements is what the parser
                    \* returned; "supplied": elements is the client's own array;
                    \* "threw": a call threw
    objects,        \* lab2: the heap of device objects, by reference
    devices,        \* lab2: manager.devices
    actions,        \* lab2: scene.actions
    call,           \* lab2: the last call made: its operation, argument and error, the
                    \* objects and the device list before it, the receivers it invoked
    log             \* lab2: the addDevice and removeDevice calls that returned, in order

converterVars == <<markdownText, options, elements, html, fragment, pc>>

homeVars == <<objects, devices, actions, call, log>>

vars == <<markdownText, options, elements, html, fragment, pc,
          objects, devices, actions, call, log>>

(***************************************************************************)
(* JavaScript values                                                       *)
(***************************************************************************)
Null == [t |-> "null"]

Undefined == [t |-> "undefined"]

TypeError == [t |-> "TypeError"]

Str(s) == [t |-> "string", s |-> s]

Num(n) == [t |-> "number", n |-> n]

Bool(b) == [t |-> "boolean", b |-> b]

Arr(a) == [t |-> "array", a |-> a]

PlainObject == [t |-> "object"]

\* ToBoolean: what `!v` and `v ||` test.
Truthy(v) ==
    CASE v.t = "null" -> FALSE
      [] v.t = "undefined" -> FALSE
      [] v.t = "string" -> Len(v.s) > 0
      [] v.t = "number" -> v.n # 0
      [] v.t = "boolean" -> v.b
      [] OTHER -> TRUE

\* typeof v
TypeOf(v) ==
    CASE v.t = "null" -> "object"
      [] v.t = "array" -> "object"
      [] OTHER -> v.t

\* Array.isArray(v)
IsArray(v) == v.t = "array"

\* v.name: a TypeError on null and undefined, undefined where the property is absent.
Prop(v, name) ==
    IF v.t \in {"null", "undefined"} THEN TypeError
    ELSE IF name \in DOMAIN v THEN v[name]
    ELSE Undefined

(***************************************************************************)
(* String.prototype methods, on sequences of characters, 0-based as in JS  *)
(***************************************************************************)
\* The characters String.prototype.trim strips (those a TLA+ string can hold).
WhiteSpace == {" ", "\t", "\n", "\r", "\f"}

\* s.substring(from, to), for 0 <= from <= to <= s.length
substring(s, from, to) == SubSeq(s, from + 1, to)

\* s.substring(from)
substringFrom(s, from) == SubSeq(s, from + 1, Len(s))

\* s.startsWith(prefix)
startsWith(s, prefix) ==
    /\ Len(prefix) <= Len(s)
    /\ SubSeq(s, 1, Len(prefix)) = prefix

\* s.indexOf(pat, from): the first 0-based position >= from where pat occurs, or -1
indexOf(s, pat, from) ==
    LET hits == {i \in from .. (Len(s) - Len(pat)) : SubSeq(s, i + 1, i + Len(pat)) = pat}
    IN  IF hits = {} THEN -1
        ELSE CHOOSE i \in hits : \A j \in hits : i <= j

\* s.includes(pat)
includes(s, pat) == indexOf(s, pat, 0) # -1

RECURSIVE trimStart(_)
trimStart(s) ==
    IF Len(s) > 0 /\ Head(s) \in WhiteSpace THEN trimStart(Tail(s)) ELSE s

RECURSIVE trimEnd(_)
trimEnd(s) ==
    IF Len(s) > 0 /\ s[Len(s)] \in WhiteSpace THEN trimEnd(SubSeq(s, 1, Len(s) - 1)) ELSE s

\* s.trim()
trim(s) == trimEnd(trimStart(s))

\* s.split(sep) for a one-character separator: always at least one piece
RECURSIVE splitChars(_, _)
splitChars(s, sep) ==
    LET i == indexOf(s, <<sep>>, 0)
    IN  IF i = -1 THEN <<s>>
        ELSE <<substring(s, 0, i)>> \o splitChars(substringFrom(s, i + 1), sep)

\* v.split(sep) on any value: only a string has the method
split(v, sep) ==
    IF v.t = "string" THEN Arr(splitChars(v.s, sep)) ELSE TypeError

\* pieces.join(sep)
RECURSIVE join(_, _)
join(pieces, sep) ==
    IF Len(pieces) = 0 THEN <<>>
    ELSE IF Len(pieces) = 1 THEN pieces[1]
    ELSE pieces[1] \o sep \o join(Tail(pieces), sep)

\* s.replace(/c/g, by): every occurrence of the character c replaced by the string by
RECURSIVE replaceAll(_, _, _)
replaceAll(s, c, by) ==
    IF Len(s) = 0 THEN <<>>
    ELSE (IF Head(s) = c THEN by ELSE <<Head(s)>>) \o replaceAll(Tail(s), c, by)

(***************************************************************************)
(* markdownParser.js                                                       *)
(***************************************************************************)
ElementType ==
    [H1 |-> <<"h", "1">>,
     H2 |-> <<"h", "2">>,
     STRONG |-> <<"s", "t", "r", "o", "n", "g">>,
     EM |-> <<"e", "m">>,
     PARAGRAPH |-> <<"p">>]

\* The type of a plain-text inline element, the literal 'text' of the parser.
TextType == <<"t", "e", "x", "t">>

\* new ParsedElement(type, content, children): type and content are character
\* sequences, children is a sequence of elements.
ParsedElement(type, content, children) ==
    [t |-> "object", type |-> Str(type), content |-> Str(content), children |-> Arr(children)]

\* _parseSimpleInline: the italic-only loop, (elements, remaining) being the loop state
RECURSIVE parseSimpleInlineLoop(_, _)
parseSimpleInlineLoop(els, remaining) ==
    IF Len(remaining) = 0 THEN els
    ELSE
        LET italicIndex == indexOf(remaining, <<"*">>, 0)
            italicEndIndex ==
                IF italicIndex # -1 THEN indexOf(remaining, <<"*">>, italicIndex + 1) ELSE -1
        IN  IF italicIndex # -1 /\ italicEndIndex # -1
            THEN
                parseSimpleInlineLoop(
                    (IF italicIndex > 0
                        THEN els \o <<ParsedElement(TextType, substring(remaining, 0, italicIndex), <<>>)>>
                        ELSE els)
                    \o <<ParsedElement(ElementType.EM,
                                       substring(remaining, italicIndex + 1, italicEndIndex), <<>>)>>,
                    substringFrom(remaining, italicEndIndex + 1))
            ELSE els \o <<ParsedElement(TextType, remaining, <<>>)>>

\* Mutant of _parseSimpleInline: the text after the last italic is not pushed.
parseSimpleInline_noTrailingText(text) ==
    IF indexOf(text, <<"*">>, 0) = -1 THEN <<>> ELSE parseSimpleInlineLoop(<<>>, text)

_parseSimpleInline(text) == parseSimpleInlineLoop(<<>>, text)

\* _parseInlineElements: bold first, then italic, then the rest as text
RECURSIVE parseInlineElementsLoop(_, _)
\* Mutant of the loop of _parseInlineElements: the text after a bold is taken from
\* boldEndIndex + 1, one star of the closing delimiter left in it.
parseInlineElementsLoop_boldEndOffByOne(els, remaining) ==
    IF Len(remaining) = 0 THEN els
    ELSE
        LET boldIndex == indexOf(remaining, <<"*", "*">>, 0)
            boldEndIndex ==
                IF boldIndex # -1 THEN indexOf(remaining, <<"*", "*">>, boldIndex + 2) ELSE -1
            italicIndex == indexOf(remaining, <<"*">>, 0)
            italicEndIndex ==
                IF italicIndex # -1 THEN indexOf(remaining, <<"*">>, italicIndex + 1) ELSE -1
        IN  IF boldIndex # -1 /\ boldEndIndex # -1
            THEN
                parseInlineElementsLoop(
                    (IF boldIndex > 0
                        THEN els \o _parseSimpleInline(substring(remaining, 0, boldIndex))
                        ELSE els)
                    \o <<ParsedElement(ElementType.STRONG,
                                       substring(remaining, boldIndex + 2, boldEndIndex), <<>>)>>,
                    substringFrom(remaining, boldEndIndex + 1))
            ELSE IF italicIndex # -1 /\ italicEndIndex # -1
            THEN
                parseInlineElementsLoop(
                    (IF italicIndex > 0
                        THEN els \o <<ParsedElement(TextType, substring(remaining, 0, italicIndex), <<>>)>>
                        ELSE els)
                    \o <<ParsedElement(ElementType.EM,
                                       substring(remaining, italicIndex + 1, italicEndIndex), <<>>)>>,
                    substringFrom(remaining, italicEndIndex + 1))
            ELSE els \o <<ParsedElement(TextType, remaining, <<>>)>>

\* Mutant of the loop of _parseInlineElements: the text before an italic is pushed
\* without the test italicIndex > 0.
parseInlineElementsLoop_noEmptyGuard(els, remaining) ==
    IF Len(remaining) = 0 THEN els
    ELSE
        LET boldIndex == indexOf(remaining, <<"*", "*">>, 0)
            boldEndIndex ==
                IF boldIndex # -1 THEN indexOf(remaining, <<"*", "*">>, boldIndex + 2) ELSE -1
            italicIndex == indexOf(remaining, <<"*">>, 0)
            italicEndIndex ==
                IF italicIndex # -1 THEN indexOf(remaining, <<"*">>, italicIndex + 1) ELSE -1
        IN  IF boldIndex # -1 /\ boldEndIndex # -1
            THEN
                parseInlineElementsLoop(
                    (IF boldIndex > 0
                        THEN els \o _parseSimpleInline(substring(remaining, 0, boldIndex))
                        ELSE els)
                    \o <<ParsedElement(ElementType.STRONG,
                                       substring(remaining, boldIndex + 2, boldEndIndex), <<>>)>>,
                    substringFrom(remaining, boldEndIndex + 2))
            ELSE IF italicIndex # -1 /\ italicEndIndex # -1
            THEN
                parseInlineElementsLoop(
                    els
                    \o <<ParsedElement(TextType, substring(remaining, 0, italicIndex), <<>>)>>
                    \o <<ParsedElement(ElementType.EM,
                                       substring(remaining, italicIndex + 1, italicEndIndex), <<>>)>>,
                    substringFrom(remaining, italicEndIndex + 1))
            ELSE els \o <<ParsedElement(TextType, remaining, <<>>)>>

parseInlineElementsLoop(els, remaining) ==
    IF Len(remaining) = 0 THEN els
    ELSE
        LET boldIndex == indexOf(remaining, <<"*", "*">>, 0)
            boldEndIndex ==
                IF boldIndex # -1 THEN indexOf(remaining, <<"*", "*">>, boldIndex + 2) ELSE -1
            italicIndex == indexOf(remaining, <<"*">>, 0)
            italicEndIndex ==
                IF italicIndex # -1 THEN indexOf(remaining, <<"*">>, italicIndex + 1) ELSE -1
        IN  IF boldIndex # -1 /\ boldEndIndex # -1
            THEN
                parseInlineElementsLoop(
                    (IF boldIndex > 0
                        THEN els \o _parseSimpleInline(substring(remaining, 0, boldIndex))
                        ELSE els)
                    \o <<ParsedElement(ElementType.STRONG,
                                       substring(remaining, boldIndex + 2, boldEndIndex), <<>>)>>,
                    substringFrom(remaining, boldEndIndex + 2))
            ELSE IF italicIndex # -1 /\ italicEndIndex # -1
            THEN
                parseInlineElementsLoop(
                    (IF italicIndex > 0
                        THEN els \o <<ParsedElement(TextType, substring(remaining, 0, italicIndex), <<>>)>>
                        ELSE els)
                    \o <<ParsedElement(ElementType.EM,
                                       substring(remaining, italicIndex + 1, italicEndIndex), <<>>)>>,
                    substringFrom(remaining, italicEndIndex + 1))
            ELSE els \o <<ParsedElement(TextType, remaining, <<>>)>>

\* Mutant of _parseInlineElements: the bold pass left out, stars paired one by one.
parseInlineElements_italicFirst(text) == parseSimpleInlineLoop(<<>>, text)

\* Mutant of _parseInlineElements: no italic pass on a line without bold.
parseInlineElements_noItalicFallback(text) ==
    IF includes(text, <<"*", "*">>) THEN parseInlineElementsLoop(<<>>, text)
    ELSE <<ParsedElement(TextType, text, <<>>)>>

_parseInlineElements(text) == parseInlineElementsLoop(<<>>, text)

\* Mutant of _parseLine: the second-level heading cut after two characters.
parseLine_h2Offset(line) ==
    IF startsWith(line, <<"#", " ">>)
    THEN ParsedElement(ElementType.H1, substringFrom(line, 2), <<>>)
    ELSE IF startsWith(line, <<"#", "#", " ">>)
    THEN ParsedElement(ElementType.H2, substringFrom(line, 2), <<>>)
    ELSE ParsedElement(ElementType.PARAGRAPH, <<>>, _parseInlineElements(line))

\* _parseLine: one trimmed, non-empty line to one element
_parseLine(line) ==
    IF startsWith(line, <<"#", " ">>)
    THEN ParsedElement(ElementType.H1, substringFrom(line, 2), <<>>)
    ELSE IF startsWith(line, <<"#", "#", " ">>)
    THEN ParsedElement(ElementType.H2, substringFrom(line, 3), <<>>)
    ELSE ParsedElement(ElementType.PARAGRAPH, <<>>, _parseInlineElements(line))

\* The for loop of parse over the lines: blank lines skipped, one element per other line
RECURSIVE parseLines(_)
\* Mutant of the for loop of parse: the line is parsed as written, not trimmed.
parseLines_untrimmed(lines) ==
    IF Len(lines) = 0 THEN <<>>
    ELSE
        LET trimmedLine == trim(Head(lines))
        IN  (IF Len(trimmedLine) = 0 THEN <<>> ELSE <<_parseLine(Head(lines))>>)
            \o parseLines(Tail(lines))

parseLines(lines) ==
    IF Len(lines) = 0 THEN <<>>
    ELSE
        LET trimmedLine == trim(Head(lines))
        IN  (IF Len(trimmedLine) = 0 THEN <<>> ELSE <<_parseLine(trimmedLine)>>)
            \o parseLines(Tail(lines))

\* Mutant of parse: the typeof test of the guard left out.
parse_noTypeofGuard(text) ==
    IF ~Truthy(text) THEN Arr(<<>>)
    ELSE
        LET lines == split(text, "\n")
        IN  IF lines = TypeError THEN TypeError ELSE Arr(parseLines(lines.a))

\* MarkdownParser.parse
parse(text) ==
    IF ~Truthy(text) \/ TypeOf(text) # "string" THEN Arr(<<>>)
    ELSE
        LET lines == split(text, "\n")
        IN  IF lines = TypeError THEN TypeError ELSE Arr(parseLines(lines.a))

\* parseMarkdown(markdownText): a fresh parser, then parse
parseMarkdown(text) == parse(text)

(***************************************************************************)
(* htmlGenerator.js                                                        *)
(***************************************************************************)
\* A template literal or a chain of +=: the parts concatenated, unless evaluating a
\* part threw.
RECURSIVE concat(_)
concat(parts) ==
    IF Len(parts) = 0 THEN Str(<<>>)
    ELSE
        LET rest == concat(Tail(parts))
        IN  IF Head(parts) = TypeError \/ rest = TypeError THEN TypeError
            ELSE Str(Head(parts).s \o rest.s)

\* values.join(sep) for an array of strings, unless computing an entry threw
RECURSIVE joinValues(_, _)
joinValues(values, sep) ==
    IF Len(values) = 0 THEN Str(<<>>)
    ELSE IF Len(values) = 1 THEN Head(values)
    ELSE concat(<<Head(values), Str(sep), joinValues(Tail(values), sep)>>)

\* v.replace(/c/g, by) on any value: only a string has the method
replace(v, c, by) ==
    IF v.t = "string" THEN Str(replaceAll(v.s, c, by)) ELSE TypeError

\* Mutant of _escapeHtml: & replaced last, after the entities are in place.
escapeHtml_ampLast(text) ==
    IF TypeOf(text) # "string" THEN Str(<<>>)
    ELSE
        replace(
            replace(
                replace(
                    replace(
                        replace(text, "<", <<"&", "l", "t", ";">>),
                        ">", <<"&", "g", "t", ";">>),
                    "\"", <<"&", "q", "u", "o", "t", ";">>),
                "'", <<"&", "#", "3", "9", ";">>),
            "&", <<"&", "a", "m", "p", ";">>)

\* Mutant of _escapeHtml: the quotes left as they are.
escapeHtml_noQuotes(text) ==
    IF TypeOf(text) # "string" THEN Str(<<>>)
    ELSE
        replace(
            replace(
                replace(text, "&", <<"&", "a", "m", "p", ";">>),
                "<", <<"&", "l", "t", ";">>),
            ">", <<"&", "g", "t", ";">>)

\* _escapeHtml: & first, then < > " '
_escapeHtml(text) ==
    IF TypeOf(text) # "string" THEN Str(<<>>)
    ELSE
        replace(
            replace(
                replace(
                    replace(
                        replace(text, "&", <<"&", "a", "m", "p", ";">>),
                        "<", <<"&", "l", "t", ";">>),
                    ">", <<"&", "g", "t", ";">>),
                "\"", <<"&", "q", "u", "o", "t", ";">>),
            "'", <<"&", "#", "3", "9", ";">>)

\* v === s for a string constant s
StrictEquals(v, s) == v.t = "string" /\ v.s = s

\* v !== false
NotFalse(v) == ~(v.t = "boolean" /\ v.b = FALSE)

RECURSIVE _generateElement(_)
RECURSIVE _generateInlineContent(_)
RECURSIVE mapGenerateElement(_)

\* children.map(child => this._generateElement(child))
mapGenerateElement(els) ==
    IF Len(els) = 0 THEN <<>>
    ELSE <<_generateElement(Head(els))>> \o mapGenerateElement(Tail(els))

\* _generateInlineContent: the children's HTML, joined with nothing
_generateInlineContent(children) ==
    IF children = TypeError THEN TypeError
    ELSE IF ~Truthy(children) \/ ~IsArray(children) THEN Str(<<>>)
    ELSE joinValues(mapGenerateElement(children.a), <<>>)

\* Mutant of _generateElement: an unknown type falls through to the text case.
generateElement_defaultAsText(element) ==
    IF ~Truthy(element) \/ ~Truthy(Prop(element, "type")) THEN Str(<<>>)
    ELSE
        LET type == Prop(element, "type")
        IN  IF type = TypeError THEN TypeError
            ELSE IF StrictEquals(type, ElementType.H1)
            THEN concat(<<Str(<<"<", "h", "1", ">">>), _escapeHtml(Prop(element, "content")), Str(<<"<", "/", "h", "1", ">">>)>>)
            ELSE IF StrictEquals(type, ElementType.H2)
            THEN concat(<<Str(<<"<", "h", "2", ">">>), _escapeHtml(Prop(element, "content")), Str(<<"<", "/", "h", "2", ">">>)>>)
            ELSE IF StrictEquals(type, ElementType.STRONG)
            THEN concat(<<Str(<<"<", "s", "t", "r", "o", "n", "g", ">">>), _escapeHtml(Prop(element, "content")), Str(<<"<", "/", "s", "t", "r", "o", "n", "g", ">">>)>>)
            ELSE IF StrictEquals(type, ElementType.EM)
            THEN concat(<<Str(<<"<", "e", "m", ">">>), _escapeHtml(Prop(element, "content")), Str(<<"<", "/", "e", "m", ">">>)>>)
            ELSE IF StrictEquals(type, ElementType.PARAGRAPH)
            THEN concat(<<Str(<<"<", "p", ">">>), _generateInlineContent(Prop(element, "children")), Str(<<"<", "/", "p", ">">>)>>)
            ELSE _escapeHtml(Prop(element, "content"))

\* _generateElement: the switch over element.type
_generateElement(element) ==
    IF ~Truthy(element) \/ ~Truthy(Prop(element, "type")) THEN Str(<<>>)
    ELSE
        LET type == Prop(element, "type")
        IN  IF type = TypeError THEN TypeError
            ELSE IF StrictEquals(type, ElementType.H1)
            THEN concat(<<Str(<<"<", "h", "1", ">">>), _escapeHtml(Prop(element, "content")), Str(<<"<", "/", "h", "1", ">">>)>>)
            ELSE IF StrictEquals(type, ElementType.H2)
            THEN concat(<<Str(<<"<", "h", "2", ">">>), _escapeHtml(Prop(element, "content")), Str(<<"<", "/", "h", "2", ">">>)>>)
            ELSE IF StrictEquals(type, ElementType.STRONG)
            THEN concat(<<Str(<<"<", "s", "t", "r", "o", "n", "g", ">">>), _escapeHtml(Prop(element, "content")), Str(<<"<", "/", "s", "t", "r", "o", "n", "g", ">">>)>>)
            ELSE IF StrictEquals(type, ElementType.EM)
            THEN concat(<<Str(<<"<", "e", "m", ">">>), _escapeHtml(Prop(element, "content")), Str(<<"<", "/", "e", "m", ">">>)>>)
            ELSE IF StrictEquals(type, ElementType.PARAGRAPH)
            THEN concat(<<Str(<<"<", "p", ">">>), _generateInlineContent(Prop(element, "children")), Str(<<"<", "/", "p", ">">>)>>)
            ELSE IF StrictEquals(type, TextType)
            THEN _escapeHtml(Prop(element, "content"))
            ELSE Str(<<>>)

\* generateBody: the elements' HTML, one per line
generateBody(els) ==
    IF ~Truthy(els) \/ ~IsArray(els) THEN Str(<<>>)
    ELSE joinValues(mapGenerateElement(els.a), <<"\n">>)

\* _generateDefaultStyles: the fixed style block
_generateDefaultStyles ==
    <<" ", " ", " ", " ", "<", "s", "t", "y", "l", "e", ">", "\n">> \o
    <<" ", " ", " ", " ", " ", " ", " ", " ", "b", "o", "d", "y", " ", "{", "\n">> \o
    <<" ", " ", " ", " ", " ", " ", " ", " ", " ", " ", " ", " ", "f", "o", "n", "t", "-", "f", "a", "m", "i", "l", "y", ":", " ", "'", "S", "e", "g", "o", "e", " ", "U", "I", "'", ",", " ", "T", "a", "h", "o", "m", "a", ",", " ", "G", "e", "n", "e", "v", "a", ",", " ", "V", "e", "r", "d", "a", "n", "a", ",", " ", "s", "a", "n", "s", "-", "s", "e", "r", "i", "f", ";", "\n">> \o
    <<" ", " ", " ", " ", " ", " ", " ", " ", " ", " ", " ", " ", "l", "i", "n", "e", "-", "h", "e", "i", "g", "h", "t", ":", " ", "1", ".", "6", ";", "\n">> \o
    <<" ", " ", " ", " ", " ", " ", " ", " ", " ", " ", " ", " ", "c", "o", "l", "o", "r", ":", " ", "#", "3", "3", "3", ";", "\n">> \o
    <<" ", " ", " ", " ", " ", " ", " ", " ", " ", " ", " ", " ", "m", "a", "x", "-", "w", "i", "d", "t", "h", ":", " ", "8", "0", "0", "p", "x", ";", "\n">> \o
    <<" ", " ", " ", " ", " ", " ", " ", " ", " ", " ", " ", " ", "m", "a", "r", "g", "i", "n", ":", " ", "0", " ", "a", "u", "t", "o", ";", "\n">> \o
    <<" ", " ", " ", " ", " ", " ", " ", " ", " ", " ", " ", " ", "p", "a", "d", "d", "i", "n", "g", ":", " ", "2", "0", "p", "x", ";", "\n">> \o
    <<" ", " ", " ", " ", " ", " ", " ", " ", " ", " ", " ", " ", "b", "a", "c", "k", "g", "r", "o", "u", "n", "d", "-", "c", "o", "l", "o", "r", ":", " ", "#", "f", "9", "f", "9", "f", "9", ";", "\n">> \o
    <<" ", " ", " ", " ", " ", " ", " ", " ", "}", "\n">> \o
    <<" ", " ", " ", " ", " ", " ", " ", " ", "h", "1", ",", " ", "h", "2", " ", "{", "\n">> \o
    <<" ", " ", " ", " ", " ", " ", " ", " ", " ", " ", " ", " ", "c", "o", "l", "o", "r", ":", " ", "#", "2", "c", "3", "e", "5", "0", ";", "\n">> \o
    <<" ", " ", " ", " ", " ", " ", " ", " ", " ", " ", " ", " ", "b", "o", "r", "d", "e", "r", "-", "b", "o", "t", "t", "o", "m", ":", " ", "2", "p", "x", " ", "s", "o", "l", "i", "d", " ", "#", "3", "4", "9", "8", "d", "b", ";", "\n">> \o
    <<" ", " ", " ", " ", " ", " ", " ", " ", " ", " ", " ", " ", "p", "a", "d", "d", "i", "n", "g", "-", "b", "o", "t", "t", "o", "m", ":", " ", "1", "0", "p", "x", ";", "\n">> \o
    <<" ", " ", " ", " ", " ", " ", " ", " ", "}", "\n">> \o
    <<" ", " ", " ", " ", " ", " ", " ", " ", "h", "1", " ", "{", "\n">> \o
    <<" ", " ", " ", " ", " ", " ", " ", " ", " ", " ", " ", " ", "f", "o", "n", "t", "-", "s", "i", "z", "e", ":", " ", "2", ".", "5", "e", "m", ";", "\n">> \o
    <<" ", " ", " ", " ", " ", " ", " ", " ", " ", " ", " ", " ", "m", "a", "r", "g", "i", "n", "-", "b", "o", "t", "t", "o", "m", ":", " ", "0", ".", "5", "e", "m", ";", "\n">> \o
    <<" ", " ", " ", " ", " ", " ", " ", " ", "}", "\n">> \o
    <<" ", " ", " ", " ", " ", " ", " ", " ", "h", "2", " ", "{", "\n">> \o
    <<" ", " ", " ", " ", " ", " ", " ", " ", " ", " ", " ", " ", "f", "o", "n", "t", "-", "s", "i", "z", "e", ":", " ", "2", "e", "m", ";", "\n">> \o
    <<" ", " ", " ", " ", " ", " ", " ", " ", " ", " ", " ", " ", "m", "a", "r", "g", "i", "n", "-", "b", "o", "t", "t", "o", "m", ":", " ", "0", ".", "5", "e", "m", ";", "\n">> \o
    <<" ", " ", " ", " ", " ", " ", " ", " ", "}", "\n">> \o
    <<" ", " ", " ", " ", " ", " ", " ", " ", "p", " ", "{", "\n">> \o
    <<" ", " ", " ", " ", " ", " ", " ", " ", " ", " ", " ", " ", "m", "a", "r", "g", "i", "n", "-", "b", "o", "t", "t", "o", "m", ":", " ", "1", "e", "m", ";", "\n">> \o
    <<" ", " ", " ", " ", " ", " ", " ", " ", " ", " ", " ", " ", "t", "e", "x", "t", "-", "a", "l", "i", "g", "n", ":", " ", "j", "u", "s", "t", "i", "f", "y", ";", "\n">> \o
    <<" ", " ", " ", " ", " ", " ", " ", " ", "}", "\n">> \o
    <<" ", " ", " ", " ", " ", " ", " ", " ", "s", "t", "r", "o", "n", "g", " ", "{", "\n">> \o
    <<" ", " ", " ", " ", " ", " ", " ", " ", " ", " ", " ", " ", "c", "o", "l", "o", "r", ":", " ", "#", "e", "7", "4", "c", "3", "c", ";", "\n">> \o
    <<" ", " ", " ", " ", " ", " ", " ", " ", " ", " ", " ", " ", "f", "o", "n", "t", "-", "w", "e", "i", "g", "h", "t", ":", " ", "b", "o", "l", "d", ";", "\n">> \o
    <<" ", " ", " ", " ", " ", " ", " ", " ", "}", "\n">> \o
    <<" ", " ", " ", " ", " ", " ", " ", " ", "e", "m", " ", "{", "\n">> \o
    <<" ", " ", " ", " ", " ", " ", " ", " ", " ", " ", " ", " ", "c", "o", "l", "o", "r", ":", " ", "#", "8", "e", "4", "4", "a", "d", ";", "\n">> \o
    <<" ", " ", " ", " ", " ", " ", " ", " ", " ", " ", " ", " ", "f", "o", "n", "t", "-", "s", "t", "y", "l", "e", ":", " ", "i", "t", "a", "l", "i", "c", ";", "\n">> \o
    <<" ", " ", " ", " ", " ", " ", " ", " ", "}", "\n">> \o
    <<" ", " ", " ", " ", "<", "/", "s", "t", "y", "l", "e", ">", "\n">>

\* '    '.repeat(level)
RECURSIVE repeatIndent(_)
repeatIndent(level) ==
    IF level <= 0 THEN <<>> ELSE <<" ", " ", " ", " ">> \o repeatIndent(level - 1)

\* content.split('\n').map(line => line.trim() ? indent + line : line)
RECURSIVE mapIndent(_, _)
mapIndent(lines, indent) ==
    IF Len(lines) = 0 THEN <<>>
    ELSE <<IF Len(trim(Head(lines))) > 0 THEN indent \o Head(lines) ELSE Head(lines)>>
         \o mapIndent(Tail(lines), indent)

\* Mutant of _indentContent: every line indented, blank or not.
indentContent_everyLine(content, level) ==
    join([k \in 1 .. Len(splitChars(content, "\n")) |->
              repeatIndent(level) \o splitChars(content, "\n")[k]],
         <<"\n">>)

\* _indentContent
_indentContent(content, level) ==
    join(mapIndent(splitChars(content, "\n"), repeatIndent(level)), <<"\n">>)

\* The title used when options.title is falsy: 'Markdown' and four CJK characters,
\* each written as its code point.
DefaultTitle == <<"M", "a", "r", "k", "d", "o", "w", "n", "U+8F6C", "U+6362", "U+7ED3", "U+679C">>

\* generateDocument, from `let html = ''` on: the document put together
assembleDocument(title, includeDoctype, includeMetadata, bodyContent) ==
    concat(<<
            Str(IF includeDoctype THEN <<"<", "!", "D", "O", "C", "T", "Y", "P", "E", " ", "h", "t", "m", "l", ">", "\n">> ELSE <<>>),
            Str(<<"<", "h", "t", "m", "l", " ", "l", "a", "n", "g", "=", "\"", "z", "h", "-", "C", "N", "\"", ">", "\n">>),
            Str(<<"<", "h", "e", "a", "d", ">", "\n">>),
            Str(IF includeMetadata
                THEN <<" ", " ", " ", " ", "<", "m", "e", "t", "a", " ", "c", "h", "a", "r", "s", "e", "t", "=", "\"", "U", "T", "F", "-", "8", "\"", ">", "\n">>
                     \o <<" ", " ", " ", " ", "<", "m", "e", "t", "a", " ", "n", "a", "m", "e", "=", "\"", "v", "i", "e", "w", "p", "o", "r", "t", "\"", " ", "c", "o", "n", "t", "e", "n", "t", "=", "\"", "w", "i", "d", "t", "h", "=", "d", "e", "v", "i", "c", "e", "-", "w", "i", "d", "t", "h", ",", " ", "i", "n", "i", "t", "i", "a", "l", "-", "s", "c", "a", "l", "e", "=", "1", ".", "0", "\"", ">", "\n">>
                ELSE <<>>),
            Str(<<" ", " ", " ", " ", "<", "t", "i", "t", "l", "e", ">">>), _escapeHtml(title), Str(<<"<", "/", "t", "i", "t", "l", "e", ">", "\n">>),
            Str(_generateDefaultStyles),
            Str(<<"<", "/", "h", "e", "a", "d", ">", "\n">>),
            Str(<<"<", "b", "o", "d", "y", ">", "\n">>),
            IF bodyContent = TypeError THEN TypeError ELSE Str(_indentContent(bodyContent.s, 1)),
            Str(<<"<", "/", "b", "o", "d", "y", ">", "\n">>),
            Str(<<"<", "/", "h", "t", "m", "l", ">">>)>>)

\* Mutant of generateDocument: an option is on only when it is given and truthy.
generateDocument_truthyFlags(els, opts) ==
    assembleDocument(
        IF Truthy(Prop(opts, "title")) THEN Prop(opts, "title") ELSE Str(DefaultTitle),
        Truthy(Prop(opts, "includeDoctype")),
        Truthy(Prop(opts, "includeMetadata")),
        generateBody(els))

\* generateDocument
generateDocument(els, opts) ==
    LET title == IF Truthy(Prop(opts, "title")) THEN Prop(opts, "title") ELSE Str(DefaultTitle)
        includeDoctype == NotFalse(Prop(opts, "includeDoctype"))
        includeMetadata == NotFalse(Prop(opts, "includeMetadata"))
        bodyContent == generateBody(els)
    IN  assembleDocument(title, includeDoctype, includeMetadata, bodyContent)

\* generateHtml(elements, options): a fresh generator, then generateDocument
generateHtml(els, opts) == generateDocument(els, opts)

\* generateHtmlFragment(elements): a fresh generator, then generateBody
generateHtmlFragment(els) == generateBody(els)

(***************************************************************************)
(* main.js: MarkdownToHtmlConverter.convertText                            *)
(***************************************************************************)
\* The htmlOptions object convertText builds from its options
htmlOptions(opts) ==
    [t |-> "object",
     title |-> IF Truthy(Prop(opts, "title")) THEN Prop(opts, "title") ELSE Str(DefaultTitle),
     includeDoctype |-> Prop(opts, "includeDoctype"),
     includeMetadata |-> Prop(opts, "includeMetadata")]

\* convertText(markdownText, options): parse, then generate the document
convertText(text, opts) ==
    LET parsedElements == parseMarkdown(text)
    IN  IF parsedElements = TypeError THEN TypeError
        ELSE generateHtml(parsedElements, htmlOptions(opts))

(***************************************************************************)
(* lab2: the smart-home classes.  An object lives in a heap, a function    *)
(* from references to records; a reference is the value Ref(r).  A method  *)
(* is an operator from the receiver (and an argument) to the receiver      *)
(* after the call and the error thrown, NoError when it returns.           *)
(***************************************************************************)
NaN == [t |-> "number", nan |-> TRUE]

Function == [t |-> "function"]

Ref(r) == [t |-> "ref", ref |-> r]

\* ToNumber(v) is a number (not NaN): v is a number, null or a boolean
IsNumeric(v) == (v.t = "number" /\ "n" \in DOMAIN v) \/ v.t \in {"null", "boolean"}

\* ToNumber of a number, null or a boolean
ToNumber(v) ==
    CASE v.t = "number" -> v.n
      [] v.t = "boolean" -> IF v.b THEN 1 ELSE 0
      [] OTHER -> 0

\* v < n and v > n for a number literal n and a value that is not a string: false
\* when ToNumber(v) is NaN
lessThan(v, n) == IsNumeric(v) /\ ToNumber(v) < n

greaterThan(v, n) == IsNumeric(v) /\ ToNumber(v) > n

\* a === b for primitive values
StrictEqual(a, b) == a.t = b.t /\ a = b /\ a # NaN

NoError == "none"

Outcome(self, error) == [self |-> self, error |-> error]

\* new SmartDevice(deviceId, deviceName) as the super call of a subclass
SmartDevice(class, deviceId, deviceName) ==
    [t |-> "object", class |-> class,
     _deviceId |-> deviceId, _deviceName |-> deviceName, _isOn |-> FALSE]

\* Add the fields of a subclass to what the super constructor made
WithFields(o, fields) ==
    [f \in DOMAIN o \cup DOMAIN fields |-> IF f \in DOMAIN fields THEN fields[f] ELSE o[f]]

SmartLight(deviceId, deviceName, brightness) ==
    WithFields(SmartDevice("SmartLight", deviceId, deviceName), [_brightness |-> brightness])

SmartAC(deviceId, deviceName, temperature, mode) ==
    WithFields(SmartDevice("SmartAC", deviceId, deviceName),
               [_temperature |-> temperature, _mode |-> mode])

SmartCurtain(deviceId, deviceName, openPercentage) ==
    WithFields(SmartDevice("SmartCurtain", deviceId, deviceName),
               [_openPercentage |-> openPercentage])

SmartTV(deviceId, deviceName, channel, volume) ==
    WithFields(SmartDevice("SmartTV", deviceId, deviceName),
               [_channel |-> channel, _volume |-> volume])

\* The methods of SmartDevice, inherited by every subclass
SmartDeviceMethods == {"turnOn", "turnOff", "getStatus", "getDeviceType"}

\* The properties of a value that are functions: those of its class, or for a plain
\* object its own function-valued properties
Methods(o) ==
    IF o.t # "object" THEN {}
    ELSE IF "class" \notin DOMAIN o THEN {f \in DOMAIN o \ {"t"} : o[f].t = "function"}
    ELSE CASE o.class = "SmartLight" -> SmartDeviceMethods \cup {"setBrightness", "getBrightness"}
           [] o.class = "SmartAC" -> SmartDeviceMethods \cup {"setTemperature", "setMode"}
           [] o.class = "SmartCurtain" -> SmartDeviceMethods \cup {"setOpenPercentage"}
           [] o.class = "SmartTV" -> SmartDeviceMethods \cup {"setChannel", "setVolume"}
           [] OTHER -> {}

\* device.deviceId: the getter of SmartDevice, or the property of a plain object
deviceId(o) == IF "_deviceId" \in DOMAIN o THEN o._deviceId ELSE Prop(o, "deviceId")

\* device.deviceName: a TypeError on null and undefined
deviceName(o) == IF "_deviceName" \in DOMAIN o THEN o._deviceName ELSE Prop(o, "deviceName")

turnOn(self) == Outcome([self EXCEPT !._isOn = TRUE], NoError)

turnOff(self) == Outcome([self EXCEPT !._isOn = FALSE], NoError)

\* SmartLight.setBrightness
setBrightness(self, level) ==
    IF lessThan(level, 0) \/ greaterThan(level, 100) THEN Outcome(self, "Error")
    ELSE Outcome([self EXCEPT !._brightness = level], NoError)

\* The modes of SmartAC: the two-character strings for cooling and for heating
ModeCool == <<"U+5236", "U+51B7">>

ModeHeat == <<"U+5236", "U+70ED">>

\* SmartAC.setTemperature
setTemperature(self, temp) ==
    IF lessThan(temp, 16) \/ greaterThan(temp, 32) THEN Outcome(self, "Error")
    ELSE Outcome([self EXCEPT !._temperature = temp], NoError)

\* SmartAC.setMode
setMode(self, mode) ==
    IF ~StrictEquals(mode, ModeCool) /\ ~StrictEquals(mode, ModeHeat) THEN Outcome(self, "Error")
    ELSE Outcome([self EXCEPT !._mode = mode], NoError)

\* SmartCurtain.setOpenPercentage
setOpenPercentage(self, percent) ==
    IF lessThan(percent, 0) \/ greaterThan(percent, 100) THEN Outcome(self, "Error")
    ELSE Outcome([self EXCEPT !._openPercentage = percent], NoError)

\* SmartTV.setChannel
setChannel(self, ch) ==
    IF TypeOf(ch) # "number" \/ lessThan(ch, 1) THEN Outcome(self, "Error")
    ELSE Outcome([self EXCEPT !._channel = ch], NoError)

\* SmartTV.setVolume
setVolume(self, vol) ==
    IF lessThan(vol, 0) \/ greaterThan(vol, 100) THEN Outcome(self, "Error")
    ELSE Outcome([self EXCEPT !._volume = vol], NoError)

\* self.method(arg): a TypeError when self has no such method
Invoke(self, method, arg) ==
    IF method \notin Methods(self) THEN Outcome(self, "TypeError")
    ELSE CASE method = "turnOn" -> turnOn(self)
           [] method = "turnOff" -> turnOff(self)
           [] method = "setBrightness" -> setBrightness(self, arg)
           [] method = "setTemperature" -> setTemperature(self, arg)
           [] method = "setMode" -> setMode(self, arg)
           [] method = "setOpenPercentage" -> setOpenPercentage(self, arg)
           [] method = "setChannel" -> setChannel(self, arg)
           [] method = "setVolume" -> setVolume(self, arg)
           [] OTHER -> Outcome(self, NoError)

(***************************************************************************)
(* HomeManager.js: this.devices is a sequence of references                *)
(***************************************************************************)
\* The value a reference or a primitive value stands for
Deref(heap, v) == IF v.t = "ref" THEN heap[v.ref] ELSE v

\* this.devices.findIndex(d => d.deviceId === id), 0-based, -1 when there is none
findIndex(devs, heap, id) ==
    LET found == {k \in 1 .. Len(devs) : StrictEqual(deviceId(heap[devs[k]]), id)}
    IN  IF found = {} THEN -1 ELSE (CHOOSE k \in found : \A j \in found : k <= j) - 1

\* What a HomeManager method leaves: the device list, the heap, the error thrown
Left(devs, heap, error) == [devices |-> devs, heap |-> heap, error |-> error]

\* Mutant of addDevice: no test of the device ID.
addDevice_noIdCheck(devs, heap, device) ==
    LET d == Deref(heap, device)
    IN  IF ~Truthy(d) \/ "getDeviceType" \notin Methods(d) THEN Left(devs, heap, "Error")
        ELSE Left(Append(devs, device.ref), heap, NoError)

\* HomeManager.addDevice
addDevice(devs, heap, device) ==
    LET d == Deref(heap, device)
    IN  IF ~Truthy(d) \/ "getDeviceType" \notin Methods(d) THEN Left(devs, heap, "Error")
        ELSE IF findIndex(devs, heap, deviceId(d)) # -1 THEN Left(devs, heap, "Error")
        ELSE Left(Append(devs, device.ref), heap, NoError)

\* devs.splice(index, 1): a negative index counts from the end
splice1(devs, index) ==
    LET at == IF index < 0 THEN Len(devs) + index + 1 ELSE index + 1
    IN  IF at \in 1 .. Len(devs)
        THEN SubSeq(devs, 1, at - 1) \o SubSeq(devs, at + 1, Len(devs))
        ELSE devs

\* Mutant of removeDevice: no test of index === -1.
removeDevice_noGuard(devs, heap, id) ==
    Left(splice1(devs, findIndex(devs, heap, id)), heap, NoError)

\* HomeManager.removeDevice
removeDevice(devs, heap, id) ==
    LET index == findIndex(devs, heap, id)
    IN  IF index = -1 THEN Left(devs, heap, "Error")
        ELSE Left(splice1(devs, index), heap, NoError)

\* HomeManager.turnOnDevice
turnOnDevice(devs, heap, id) ==
    LET index == findIndex(devs, heap, id)
    IN  IF index = -1 THEN Left(devs, heap, "Error")
        ELSE IF "turnOn" \notin Methods(heap[devs[index + 1]]) THEN Left(devs, heap, "Error")
        ELSE Left(devs, [heap EXCEPT ![devs[index + 1]] = turnOn(@).self], NoError)

\* HomeManager.turnOffDevice
turnOffDevice(devs, heap, id) ==
    LET index == findIndex(devs, heap, id)
    IN  IF index = -1 THEN Left(devs, heap, "Error")
        ELSE IF "turnOff" \notin Methods(heap[devs[index + 1]]) THEN Left(devs, heap, "Error")
        ELSE Left(devs, [heap EXCEPT ![devs[index + 1]] = turnOff(@).self], NoError)

(***************************************************************************)
(* SceneMode.js: this.actions is a sequence of {device, action}; an action *)
(* is the sequence of the method calls its function makes on this          *)
(***************************************************************************)
\* SceneMode.addAction
addAction(acts, device, action) == Append(acts, [device |-> device, action |-> action])

\* The statements of a function run on this, up to the first that throws
RECURSIVE runStatements(_, _)
runStatements(self, body) ==
    IF Len(body) = 0 THEN Outcome(self, NoError)
    ELSE
        LET r == Invoke(self, Head(body).method, Head(body).arg)
        IN  IF r.error # NoError THEN r ELSE runStatements(r.self, Tail(body))

\* The forEach of applyScene from action i on: action.call(device) in a try, the
\* catch reading device.deviceName for its message.  invoked lists the receivers of
\* the calls made so far.
RECURSIVE applySceneFrom(_, _, _, _)
applySceneFrom(acts, i, heap, invoked) ==
    IF i > Len(acts) THEN [heap |-> heap, invoked |-> invoked, error |-> NoError]
    ELSE
        LET device == acts[i].device
            r == runStatements(Deref(heap, device), acts[i].action)
            after == IF device.t = "ref" THEN [heap EXCEPT ![device.ref] = r.self] ELSE heap
            called == Append(invoked, device)
        IN  IF r.error # NoError /\ deviceName(Deref(heap, device)) = TypeError
            THEN [heap |-> after, invoked |-> called, error |-> "TypeError"]
            ELSE applySceneFrom(acts, i + 1, after, called)

\* SceneMode.applyScene
applyScene(acts, heap) == applySceneFrom(acts, 1, heap, <<>>)

(***************************************************************************)
(* The objects the clients of lab2 construct                               *)
(***************************************************************************)
Id(a, b, c) == Str(<<a, b, c>>)

\* The four devices of the demo, a second light made with the ID of the first, and
\* a plain object that has a getDeviceType and no turnOn
Constructed ==
    [lamp |-> SmartLight(Id("0", "0", "1"), Str(<<"l", "a", "m", "p">>), Num(75)),
     spare |-> SmartLight(Id("0", "0", "1"), Str(<<"s", "p", "a", "r", "e">>), Num(100)),
     ac |-> SmartAC(Id("0", "0", "2"), Str(<<"a", "c">>), Num(24), Str(ModeCool)),
     curtain |-> SmartCurtain(Id("0", "0", "3"), Str(<<"c", "u", "r", "t", "a", "i", "n">>), Num(50)),
     tv |-> SmartTV(Id("0", "0", "4"), Str(<<"t", "v">>), Num(5), Num(40)),
     sensor |-> [t |-> "object", deviceId |-> Id("0", "0", "5"),
                 deviceName |-> Str(<<"s", "e", "n", "s", "o", "r">>),
                 getDeviceType |-> Function]]

\* No call made yet
NoCall ==
    [op |-> "none", arg |-> Undefined, error |-> NoError,
     before |-> [objects |-> Constructed, devices |-> <<>>], invoked |-> <<>>]

\* new HomeManager(), new SceneMode(name) and the devices, nothing called on them
HomeConstructed ==
    /\ objects = Constructed
    /\ devices = <<>>
    /\ actions = <<>>
    /\ call = NoCall
    /\ log = <<>>

(***************************************************************************)
(* The inputs a client passes                                              *)
(***************************************************************************)
\* All strings over an alphabet, up to a length
Strings(alphabet, maxLen) == UNION {[1 .. k -> alphabet] : k \in 0 .. maxLen}

\* All sequences over a set, up to a length
SeqsUpTo(S, maxLen) == UNION {[1 .. k -> S] : k \in 0 .. maxLen}

\* The options object {}: every option absent
NoOptions == [t |-> "object"]

\* Values that are not strings
NonStrings == {Null, Undefined, Num(0), Num(7), Bool(TRUE), PlainObject, Arr(<<>>)}

MaxTextLen == 5

\* Documents: lines, blank lines, heading markers
ParseAlphabet == {" ", "\n", "#", "a", "*"}

ParseTexts == {Str(s) : s \in Strings(ParseAlphabet, MaxTextLen)} \cup NonStrings

MaxInlineLen == 7

\* Paragraph lines: text and emphasis markers
InlineAlphabet == {"a", "b", "*"}

InlineTexts == {Str(s) : s \in Strings(InlineAlphabet, MaxInlineLen)}

MaxEscapeLen == 3

\* The characters _escapeHtml replaces, a letter, and the end of an entity
EscapeAlphabet == {"&", "<", ">", "\"", "'", "a", ";"}

EscapeStrings == Strings(EscapeAlphabet, MaxEscapeLen)

MaxPayloadLen == 2

\* A text as a paragraph, a heading, an italic, a bold, and a second line
Wrap(s) ==
    {s,
     <<"#", " ">> \o s,
     <<"#", "#", " ">> \o s,
     <<"*">> \o s \o <<"*">>,
     <<"*", "*">> \o s \o <<"*", "*">>,
     <<"a", "\n">> \o s}

\* The heading of the escaping example: # <script>alert("x")</script>
ScriptExample == <<"#", " ", "<", "s", "c", "r", "i", "p", "t", ">", "a", "l", "e", "r", "t", "(", "\"", "x", "\"", ")", "<", "/", "s", "c", "r", "i", "p", "t", ">">>

RenderTexts ==
    {Str(s) : s \in UNION {Wrap(w) : w \in Strings(EscapeAlphabet, MaxPayloadLen)}}
    \cup {Str(ScriptExample)}

\* An options object; an option that is not given reads as undefined
Options(title, includeDoctype, includeMetadata) ==
    [t |-> "object", title |-> title,
     includeDoctype |-> includeDoctype, includeMetadata |-> includeMetadata]

TitleSamples ==
    {NoOptions, Options(Str(<<"<", "a", ">", "\"", "'", "&">>), Undefined, Undefined)}

TitleOptions ==
    {Options(Str(s), Undefined, Undefined) : s \in EscapeStrings}
    \cup {Options(Num(7), Undefined, Undefined)}

Flags == {Undefined, Bool(TRUE), Bool(FALSE)}

DocOptions == {Options(Undefined, d, md) : d \in Flags, md \in Flags}

\* Elements a client may hand to the generator: missing, without a type, of an
\* unknown type, the six known types, and malformed ones
NodePool ==
    {Null,
     Undefined,
     Num(3),
     [t |-> "object", content |-> Str(<<"a">>)],
     ParsedElement(<<>>, <<"a">>, <<>>),
     ParsedElement(<<"d", "i", "v">>, <<"a">>, <<>>),
     ParsedElement(ElementType.H1, <<"a", "<">>, <<>>),
     ParsedElement(ElementType.H2, <<"&">>, <<>>),
     ParsedElement(ElementType.STRONG, <<"\"">>, <<>>),
     ParsedElement(ElementType.EM, <<"'">>, <<>>),
     ParsedElement(TextType, <<">">>, <<>>),
     ParsedElement(TextType, <<" ">>, <<>>),
     ParsedElement(TextType, <<"a", "\n", "b">>, <<>>),
     ParsedElement(ElementType.PARAGRAPH, <<>>,
                   <<ParsedElement(TextType, <<"a">>, <<>>),
                     ParsedElement(ElementType.STRONG, <<"b">>, <<>>),
                     ParsedElement(ElementType.EM, <<"<">>, <<>>)>>),
     ParsedElement(ElementType.PARAGRAPH, <<>>,
                   <<Null,
                     ParsedElement(<<"d", "i", "v">>, <<"a">>, <<>>),
                     ParsedElement(ElementType.PARAGRAPH, <<>>,
                                   <<ParsedElement(TextType, <<"a">>, <<>>)>>)>>),
     [t |-> "object", type |-> Str(ElementType.PARAGRAPH), content |-> Str(<<>>)],
     [t |-> "object", type |-> Str(ElementType.H1), content |-> Num(5), children |-> Arr(<<>>)]}

MaxNodes == 2

MaxOptionNodes == 1

MaxSampleLen == 2

SampleTexts == {Str(s) : s \in Strings(ParseAlphabet, MaxSampleLen)}

(***************************************************************************)
(* The calls                                                               *)
(***************************************************************************)
\* A client calls parseMarkdown(markdownText)
ParseMarkdown ==
    /\ pc = "start"
    /\ elements' = parseMarkdown(markdownText)
    /\ pc' = IF elements' = TypeError THEN "threw" ELSE "parsed"
    /\ UNCHANGED <<markdownText, options, html, fragment>>
    /\ UNCHANGED homeVars

\* A client calls generateHtml(elements, options)
GenerateHtml ==
    /\ pc \in {"parsed", "supplied"}
    /\ html = Undefined
    /\ html' = generateHtml(elements, options)
    /\ UNCHANGED <<markdownText, options, elements, fragment, pc>>
    /\ UNCHANGED homeVars

\* A client calls generateHtmlFragment(elements)
GenerateHtmlFragment ==
    /\ pc \in {"parsed", "supplied"}
    /\ fragment = Undefined
    /\ fragment' = generateHtmlFragment(elements)
    /\ UNCHANGED <<markdownText, options, elements, html, pc>>
    /\ UNCHANGED homeVars

\* A client calls converter.convertText(markdownText, options)
ConvertText ==
    /\ pc = "start"
    /\ elements' = parseMarkdown(markdownText)
    /\ html' = convertText(markdownText, options)
    /\ pc' = IF html' = TypeError THEN "threw" ELSE "parsed"
    /\ UNCHANGED <<markdownText, options, fragment>>
    /\ UNCHANGED homeVars

Next ==
    \/ ParseMarkdown
    \/ GenerateHtml
    \/ GenerateHtmlFragment
    \/ ConvertText

\* Nothing called yet, on a document of lines
InitParse ==
    /\ HomeConstructed
    /\ markdownText \in ParseTexts
    /\ options = NoOptions
    /\ elements = Undefined
    /\ html = Undefined
    /\ fragment = Undefined
    /\ pc = "start"

SpecParse == InitParse /\ [][Next]_vars

\* Nothing called yet, on one paragraph line
InitInline ==
    /\ HomeConstructed
    /\ markdownText \in InlineTexts
    /\ options = NoOptions
    /\ elements = Undefined
    /\ html = Undefined
    /\ fragment = Undefined
    /\ pc = "start"

SpecInline == InitInline /\ [][Next]_vars

\* Texts and titles that need escaping: documents not yet parsed, and text elements
\* handed to the generator as they are
InitRender ==
    /\ HomeConstructed
    /\ html = Undefined
    /\ fragment = Undefined
    /\ \/ /\ pc = "start"
          /\ markdownText \in RenderTexts
          /\ options \in TitleSamples
          /\ elements = Undefined
       \/ /\ pc = "start"
          /\ markdownText = Str(<<"a">>)
          /\ options \in TitleOptions
          /\ elements = Undefined
       \/ /\ pc = "supplied"
          /\ markdownText = Undefined
          /\ options = NoOptions
          /\ elements \in {Arr(<<ParsedElement(TextType, s, <<>>)>>) : s \in EscapeStrings}

SpecRender == InitRender /\ [][Next]_vars

\* Element arrays handed to the generator as they are, and a few documents not yet
\* parsed, under every combination of the document options
InitNodes ==
    /\ HomeConstructed
    /\ html = Undefined
    /\ fragment = Undefined
    /\ \/ /\ pc = "supplied"
          /\ markdownText = Undefined
          /\ options = NoOptions
          /\ elements \in {Arr(ns) : ns \in SeqsUpTo(NodePool, MaxNodes)}
       \/ /\ pc = "supplied"
          /\ markdownText = Undefined
          /\ options \in DocOptions
          /\ elements \in {Arr(ns) : ns \in SeqsUpTo(NodePool, MaxOptionNodes)}
                          \cup {Null, Undefined}
       \/ /\ pc = "start"
          /\ markdownText \in SampleTexts
          /\ options \in DocOptions
          /\ elements = Undefined

SpecNodes == InitNodes /\ [][Next]_vars

(***************************************************************************)
(* The calls on lab2                                                       *)
(***************************************************************************)
\* The converter of lab1 is not used
ConverterIdle ==
    /\ markdownText = Undefined
    /\ options = NoOptions
    /\ elements = Undefined
    /\ html = Undefined
    /\ fragment = Undefined
    /\ pc = "start"

\* The record of a call made in the current state
Called(op, arg, error, invoked) ==
    [op |-> op, arg |-> arg, error |-> error,
     before |-> [objects |-> objects, devices |-> devices], invoked |-> invoked]

MaxLog == 3

\* What a client hands to addDevice: devices, a plain object with a getDeviceType,
\* and values that are no devices
DeviceArgs == {Ref("lamp"), Ref("spare"), Ref("tv"), Ref("sensor"), Null, PlainObject}

\* The IDs a client names: those of the devices above and one that no device has
IdArgs == {Id("0", "0", "1"), Id("0", "0", "4"), Id("0", "0", "5"), Id("9", "9", "9")}

\* manager.addDevice(device)
AddDevice ==
    /\ Len(log) < MaxLog
    /\ \E device \in DeviceArgs :
        LET r == addDevice(devices, objects, device)
        IN  /\ devices' = r.devices
            /\ objects' = r.heap
            /\ call' = Called("addDevice", device, r.error, <<>>)
            /\ log' = IF r.error = NoError
                         THEN Append(log, [op |-> "addDevice", arg |-> device])
                         ELSE log
    /\ UNCHANGED actions
    /\ UNCHANGED converterVars

\* manager.removeDevice(deviceId)
RemoveDevice ==
    /\ Len(log) < MaxLog
    /\ \E id \in IdArgs :
        LET r == removeDevice(devices, objects, id)
        IN  /\ devices' = r.devices
            /\ objects' = r.heap
            /\ call' = Called("removeDevice", id, r.error, <<>>)
            /\ log' = IF r.error = NoError
                         THEN Append(log, [op |-> "removeDevice", arg |-> id])
                         ELSE log
    /\ UNCHANGED actions
    /\ UNCHANGED converterVars

\* manager.turnOnDevice(deviceId)
TurnOnDevice ==
    /\ \E id \in IdArgs :
        LET r == turnOnDevice(devices, objects, id)
        IN  /\ devices' = r.devices
            /\ objects' = r.heap
            /\ call' = Called("turnOnDevice", id, r.error, <<>>)
    /\ UNCHANGED <<actions, log>>
    /\ UNCHANGED converterVars

\* manager.turnOffDevice(deviceId)
TurnOffDevice ==
    /\ \E id \in IdArgs :
        LET r == turnOffDevice(devices, objects, id)
        IN  /\ devices' = r.devices
            /\ objects' = r.heap
            /\ call' = Called("turnOffDevice", id, r.error, <<>>)
    /\ UNCHANGED <<actions, log>>
    /\ UNCHANGED converterVars

NextManager ==
    \/ AddDevice
    \/ RemoveDevice
    \/ TurnOnDevice
    \/ TurnOffDevice

InitManager == ConverterIdle /\ HomeConstructed

SpecManager == InitManager /\ [][NextManager]_vars

\* The arguments of the setters of a percentage, of the temperature, of the mode
\* and of the channel
PercentArgs == {Num(-1), Num(0), Num(100), Num(101), NaN}

TemperatureArgs == {Num(15), Num(16), Num(32), Num(33), NaN}

ModeArgs == {Str(ModeCool), Str(ModeHeat), Str(<<"a">>)}

ChannelArgs == {Num(0), Num(6), Str(<<"6">>)}

\* device.method(arg), called on the object itself
CallSetter(ref, method, arg) ==
    LET r == Invoke(objects[ref], method, arg)
    IN  /\ objects' = [objects EXCEPT ![ref] = r.self]
        /\ call' = Called(method, arg, r.error, <<Ref(ref)>>)
        /\ UNCHANGED <<devices, actions, log>>
        /\ UNCHANGED converterVars

SetBrightness == \E level \in PercentArgs : CallSetter("lamp", "setBrightness", level)

SetTemperature == \E temp \in TemperatureArgs : CallSetter("ac", "setTemperature", temp)

SetMode == \E mode \in ModeArgs : CallSetter("ac", "setMode", mode)

SetOpenPercentage ==
    \E percent \in PercentArgs : CallSetter("curtain", "setOpenPercentage", percent)

SetChannel == \E ch \in ChannelArgs : CallSetter("tv", "setChannel", ch)

SetVolume == \E vol \in PercentArgs : CallSetter("tv", "setVolume", vol)

NextSetters ==
    \/ SetBrightness
    \/ SetTemperature
    \/ SetMode
    \/ SetOpenPercentage
    \/ SetChannel
    \/ SetVolume

InitSetters == ConverterIdle /\ HomeConstructed

SpecSetters == InitSetters /\ [][NextSetters]_vars

\* A statement this.method(arg) of an action
Statement(method, arg) == [method |-> method, arg |-> arg]

\* The three actions of the demo's night scene
LampOff == <<Statement("turnOff", Undefined)>>

HeatTo22 == <<Statement("setMode", Str(ModeHeat)), Statement("setTemperature", Num(22))>>

OnAtVolume18 == <<Statement("turnOn", Undefined), Statement("setVolume", Num(18))>>

ActionPool == {LampOff, HeatTo22, OnAtVolume18}

\* The devices an action is registered for; null is what a failed lookup gives
SceneDevices == {Ref("lamp"), Ref("ac"), Ref("tv"), Null}

MaxActions == 2

\* scene.addAction(device, action)
AddAction ==
    /\ Len(actions) < MaxActions
    /\ \E device \in SceneDevices : \E action \in ActionPool :
        /\ actions' = addAction(actions, device, action)
        /\ call' = Called("addAction", device, NoError, <<>>)
    /\ UNCHANGED <<objects, devices, log>>
    /\ UNCHANGED converterVars

\* scene.applyScene()
ApplyScene ==
    /\ LET r == applyScene(actions, objects)
       IN  /\ objects' = r.heap
           /\ call' = Called("applyScene", Undefined, r.error, r.invoked)
    /\ UNCHANGED <<devices, actions, log>>
    /\ UNCHANGED converterVars

NextScene ==
    \/ AddAction
    \/ ApplyScene

InitScene == ConverterIdle /\ HomeConstructed

SpecScene == InitScene /\ [][NextScene]_vars

(***************************************************************************)
(* The properties                                                          *)
(***************************************************************************)
\* A leaf element: a type, a text, no children
Leaf(type, text) ==
    [t |-> "object", type |-> Str(type), content |-> Str(text), children |-> Arr(<<>>)]

TextLeaf(text) == Leaf(<<"t", "e", "x", "t">>, text)

BoldLeaf(text) == Leaf(<<"s", "t", "r", "o", "n", "g">>, text)

ItalicLeaf(text) == Leaf(<<"e", "m">>, text)

\* A paragraph element with the given children
Para(children) ==
    [t |-> "object", type |-> Str(<<"p">>), content |-> Str(<<>>), children |-> Arr(children)]

AllWhiteSpace(s) == \A i \in 1 .. Len(s) : s[i] \in {" ", "\t", "\n", "\r", "\f"}

NonBlank(l) == ~AllWhiteSpace(l)

\* The lines of a document that are not blank, each trimmed, in order
SourceLines(s) ==
    LET ls == SelectSeq(splitChars(s, "\n"), NonBlank)
    IN  [k \in 1 .. Len(ls) |-> trim(ls[k])]

IsH1Line(l) == Len(l) >= 2 /\ l[1] = "#" /\ l[2] = " "

IsH2Line(l) == ~IsH1Line(l) /\ Len(l) >= 3 /\ l[1] = "#" /\ l[2] = "#" /\ l[3] = " "

IsParagraphLine(l) == ~IsH1Line(l) /\ ~IsH2Line(l)

NoStar(s) == \A i \in 1 .. Len(s) : s[i] # "*"

\* The parser has returned the elements of the string markdownText
Parsed == pc = "parsed" /\ markdownText.t = "string"

\* C1: parse returns the empty element sequence, and does not throw, on the empty
\* string, on a string of blank lines only and on a value that is not a string.
C1_BlankInputGivesNoElements ==
    (pc \in {"parsed", "threw"}
        /\ (markdownText.t # "string" \/ AllWhiteSpace(markdownText.s)))
    => (pc = "parsed" /\ elements = Arr(<<>>))

\* C1 witness: a string of several blank lines has been parsed to nothing.
C1_Witness ==
    /\ Parsed
    /\ Len(markdownText.s) >= 3
    /\ AllWhiteSpace(markdownText.s)
    /\ \E i \in 1 .. Len(markdownText.s) : markdownText.s[i] = "\n"
    /\ \E i \in 1 .. Len(markdownText.s) : markdownText.s[i] = " "
    /\ elements = Arr(<<>>)

\* C2: a line whose trimmed form starts with "# " gives exactly one h1 leaf holding
\* everything after the two characters; one that starts with "## " gives exactly one
\* h2 leaf holding everything after the three characters; the leaf has no children
\* and its text is kept as written, stars included.
C2_HeadingLines ==
    Parsed =>
        LET ls == SourceLines(markdownText.s)
        IN  /\ elements.t = "array"
            /\ Len(elements.a) = Len(ls)
            /\ \A k \in 1 .. Len(ls) :
                /\ IsH1Line(ls[k]) =>
                      elements.a[k] = Leaf(<<"h", "1">>, SubSeq(ls[k], 3, Len(ls[k])))
                /\ IsH2Line(ls[k]) =>
                      elements.a[k] = Leaf(<<"h", "2">>, SubSeq(ls[k], 4, Len(ls[k])))

\* C2 witness: a heading whose text holds a star has been parsed, the star kept.
C2_Witness ==
    /\ Parsed
    /\ \E k \in 1 .. Len(elements.a) :
        /\ elements.a[k].type = Str(<<"h", "2">>)
        /\ \E i \in 1 .. Len(elements.a[k].content.s) : elements.a[k].content.s[i] = "*"

\* C3: a paragraph line x**y**z, with x, y, z free of stars and x, z not empty,
\* gives one paragraph whose children are Text(x), Bold(y), Text(z).
C3_BoldBetweenTexts ==
    Parsed =>
        LET ls == SourceLines(markdownText.s)
        IN  \A k \in 1 .. Len(ls) :
                LET l == ls[k]
                IN  IsParagraphLine(l) =>
                        \A i \in 1 .. Len(l) : \A j \in (i + 2) .. (Len(l) - 3) :
                            LET x == SubSeq(l, 1, i)
                                y == SubSeq(l, i + 3, j)
                                z == SubSeq(l, j + 3, Len(l))
                            IN  (/\ l[i + 1] = "*" /\ l[i + 2] = "*"
                                 /\ l[j + 1] = "*" /\ l[j + 2] = "*"
                                 /\ NoStar(x) /\ NoStar(y) /\ NoStar(z))
                                => (/\ k \in 1 .. Len(elements.a)
                                    /\ elements.a[k] = Para(<<TextLeaf(x), BoldLeaf(y), TextLeaf(z)>>))

\* C3 witness: the line a**b**a has been parsed.
C3_Witness ==
    /\ Parsed
    /\ markdownText.s = <<"a", "*", "*", "b", "*", "*", "a">>
    /\ elements = Arr(<<Para(<<TextLeaf(<<"a">>), BoldLeaf(<<"b">>), TextLeaf(<<"a">>)>>)>>)

\* C4: a paragraph line x*y*z without **, with x, y, z free of stars and x, z not
\* empty, gives one paragraph whose children are Text(x), Italic(y), Text(z).
C4_ItalicBetweenTexts ==
    Parsed =>
        LET ls == SourceLines(markdownText.s)
        IN  \A k \in 1 .. Len(ls) :
                LET l == ls[k]
                IN  IsParagraphLine(l) =>
                        \A i \in 1 .. Len(l) : \A j \in (i + 2) .. (Len(l) - 2) :
                            LET x == SubSeq(l, 1, i)
                                y == SubSeq(l, i + 2, j)
                                z == SubSeq(l, j + 2, Len(l))
                            IN  (/\ l[i + 1] = "*"
                                 /\ l[j + 1] = "*"
                                 /\ NoStar(x) /\ NoStar(y) /\ NoStar(z))
                                => (/\ k \in 1 .. Len(elements.a)
                                    /\ elements.a[k] = Para(<<TextLeaf(x), ItalicLeaf(y), TextLeaf(z)>>))

\* C4 witness: the line a*ba*b has been parsed.
C4_Witness ==
    /\ Parsed
    /\ markdownText.s = <<"a", "*", "b", "a", "*", "b">>
    /\ elements = Arr(<<Para(<<TextLeaf(<<"a">>), ItalicLeaf(<<"b", "a">>), TextLeaf(<<"b">>)>>)>>)

\* The positions of ** in a line
DoubleStars(l) == {i \in 1 .. (Len(l) - 1) : l[i] = "*" /\ l[i + 1] = "*"}

\* A line with an opening ** and no ** after it to close it
HasUnmatchedBold(l) ==
    /\ DoubleStars(l) # {}
    /\ \A i \in DoubleStars(l) : \A j \in DoubleStars(l) : j < i + 2

\* C5: a paragraph line with an opening ** and no closing ** after it is literal
\* text: its paragraph has a single Text child holding the whole line.
C5_UnmatchedBoldIsLiteral ==
    Parsed =>
        LET ls == SourceLines(markdownText.s)
        IN  \A k \in 1 .. Len(ls) :
                (IsParagraphLine(ls[k]) /\ HasUnmatchedBold(ls[k]))
                => (/\ k \in 1 .. Len(elements.a)
                    /\ elements.a[k] = Para(<<TextLeaf(ls[k])>>))

\* pat occurs in s at position i (1-based)
At(s, i, pat) ==
    /\ i >= 1
    /\ i + Len(pat) - 1 <= Len(s)
    /\ \A k \in 1 .. Len(pat) : s[i + k - 1] = pat[k]

Contains(s, pat) == \E i \in 1 .. (Len(s) - Len(pat) + 1) : At(s, i, pat)

\* The first position of pat in s (pat occurs in s)
FirstAt(s, pat) ==
    CHOOSE i \in 1 .. Len(s) : At(s, i, pat) /\ \A j \in 1 .. (i - 1) : ~At(s, j, pat)

CountChar(s, c) == Cardinality({i \in 1 .. Len(s) : s[i] = c})

BodyOpen == <<"<", "b", "o", "d", "y", ">", "\n">>

DocumentEnd == <<"<", "/", "b", "o", "d", "y", ">", "\n", "<", "/", "h", "t", "m", "l", ">">>

TitleOpen == <<"<", "t", "i", "t", "l", "e", ">">>

TitleClose == <<"<", "/", "t", "i", "t", "l", "e", ">">>

\* What a document holds between the <body> line and </body>
BodyOf(h) ==
    SubSeq(h, FirstAt(h, BodyOpen) + Len(BodyOpen), Len(h) - Len(DocumentEnd))

\* What a document holds between <title> and </title>
TitleOf(h) ==
    SubSeq(h, FirstAt(h, TitleOpen) + Len(TitleOpen), FirstAt(h, TitleClose) - 1)

\* The shape of a document: a body and a title can be cut out of it
IsDocument(h) ==
    /\ Contains(h, BodyOpen)
    /\ At(h, Len(h) - Len(DocumentEnd) + 1, DocumentEnd)
    /\ FirstAt(h, BodyOpen) + Len(BodyOpen) <= Len(h) - Len(DocumentEnd) + 1
    /\ Contains(h, TitleOpen)
    /\ Contains(h, TitleClose)
    /\ FirstAt(h, TitleOpen) < FirstAt(h, TitleClose)

\* The tags the element templates emit
BodyTags ==
    {<<"<", "h", "1", ">">>, <<"<", "/", "h", "1", ">">>,
     <<"<", "h", "2", ">">>, <<"<", "/", "h", "2", ">">>,
     <<"<", "p", ">">>, <<"<", "/", "p", ">">>,
     <<"<", "s", "t", "r", "o", "n", "g", ">">>,
     <<"<", "/", "s", "t", "r", "o", "n", "g", ">">>,
     <<"<", "e", "m", ">">>, <<"<", "/", "e", "m", ">">>}

NoRawSpecial(s) == \A i \in 1 .. Len(s) : s[i] \notin {"<", ">", "\"", "'"}

\* Every < opens one of the tags and every > closes one
OnlyTags(s, tags) ==
    \A i \in 1 .. Len(s) :
        /\ s[i] = "<" => \E tag \in tags : At(s, i, tag)
        /\ s[i] = ">" => \E tag \in tags : At(s, i - Len(tag) + 1, tag)

\* The number of elements of an array, children included, that a template gives tags
RECURSIVE TaggedCount(_)
TaggedCount(els) ==
    IF Len(els) = 0 THEN 0
    ELSE (IF Head(els).type.s = <<"t", "e", "x", "t">> THEN 0 ELSE 1)
         + TaggedCount(Head(els).children.a)
         + TaggedCount(Tail(els))

\* C6: in the document rendered from parse(s), the characters < > " ' of s and of the
\* title appear only as entities: the title holds none of them raw, the body holds no
\* quote and no < or > but those of the h1, h2, p, strong and em tags of its elements,
\* and the heading <script>alert("x")</script> is rendered with &lt;script&gt; and
\* &quot;x&quot; and without <script>.
C6_RenderingEscapes ==
    (pc = "parsed" /\ html # Undefined) =>
        /\ html.t = "string"
        /\ IsDocument(html.s)
        /\ NoRawSpecial(TitleOf(html.s))
        /\ LET body == BodyOf(html.s)
           IN  /\ OnlyTags(body, BodyTags)
               /\ CountChar(body, "<") = 2 * TaggedCount(elements.a)
               /\ CountChar(body, ">") = 2 * TaggedCount(elements.a)
               /\ CountChar(body, "\"") = 0
               /\ CountChar(body, "'") = 0
        /\ ~Contains(html.s, <<"<", "s", "c", "r", "i", "p", "t", ">">>)
        /\ markdownText = Str(ScriptExample) =>
              /\ Contains(html.s, <<"&", "l", "t", ";", "s", "c", "r", "i", "p", "t", "&", "g", "t", ";">>)
              /\ Contains(html.s, <<"&", "q", "u", "o", "t", ";", "x", "&", "q", "u", "o", "t", ";">>)

\* C6 witness: the script heading has been rendered, escaped.
C6_Witness ==
    /\ pc = "parsed"
    /\ markdownText = Str(ScriptExample)
    /\ html # Undefined
    /\ html.t = "string"
    /\ Contains(html.s, <<"<", "h", "1", ">", "&", "l", "t", ";", "s", "c", "r", "i", "p", "t", "&", "g", "t", ";", "a", "l", "e", "r", "t", "(", "&", "q", "u", "o", "t", ";", "x", "&", "q", "u", "o", "t", ";", ")", "&", "l", "t", ";", "/", "s", "c", "r", "i", "p", "t", "&", "g", "t", ";", "<", "/", "h", "1", ">">>)

\* The entity of a character, or the character itself
EntityOf(c) ==
    CASE c = "&" -> <<"&", "a", "m", "p", ";">>
      [] c = "<" -> <<"&", "l", "t", ";">>
      [] c = ">" -> <<"&", "g", "t", ";">>
      [] c = "\"" -> <<"&", "q", "u", "o", "t", ";">>
      [] c = "'" -> <<"&", "#", "3", "9", ";">>
      [] OTHER -> <<c>>

\* The substitution character by character
RECURSIVE CharSubst(_)
CharSubst(s) ==
    IF Len(s) = 0 THEN <<>> ELSE EntityOf(Head(s)) \o CharSubst(Tail(s))

Entities ==
    {<<"&", "a", "m", "p", ";">>, <<"&", "l", "t", ";">>, <<"&", "g", "t", ";">>,
     <<"&", "q", "u", "o", "t", ";">>, <<"&", "#", "3", "9", ";">>}

AmpsStartEntities(s) ==
    \A i \in 1 .. Len(s) : s[i] = "&" => \E e \in Entities : At(s, i, e)

\* A text element alone is rendered as its escaped text
IsTextAlone(els) ==
    /\ els.t = "array"
    /\ Len(els.a) = 1
    /\ els.a[1] = TextLeaf(els.a[1].content.s)

\* C10: escape(t) is t with & < > " ' replaced, character by character, by &amp; &lt;
\* &gt; &quot; &#39; and every other character kept; it holds none of < > " ' raw, and
\* each of its & starts one of the five entities.
C10_EscapeIsCharSubstitution ==
    (pc = "supplied" /\ fragment # Undefined /\ IsTextAlone(elements)) =>
        /\ fragment = Str(CharSubst(elements.a[1].content.s))
        /\ NoRawSpecial(fragment.s)
        /\ AmpsStartEntities(fragment.s)

\* C10 witness: the text <&" has been escaped to &lt;&amp;&quot;.
C10_Witness ==
    /\ pc = "supplied"
    /\ elements = Arr(<<TextLeaf(<<"<", "&", "\"">>)>>)
    /\ fragment = Str(<<"&", "l", "t", ";", "&", "a", "m", "p", ";", "&", "q", "u", "o", "t", ";">>)

DoctypeLine == <<"<", "!", "D", "O", "C", "T", "Y", "P", "E", " ", "h", "t", "m", "l", ">", "\n">>

HtmlLine == <<"<", "h", "t", "m", "l", " ", "l", "a", "n", "g", "=", "\"", "z", "h", "-", "C", "N", "\"", ">", "\n">>

MetaCharsetLine ==
    <<" ", " ", " ", " ", "<", "m", "e", "t", "a", " ", "c", "h", "a", "r", "s", "e", "t", "=", "\"", "U", "T", "F", "-", "8", "\"", ">", "\n">>

MetaViewportLine ==
    <<" ", " ", " ", " ", "<", "m", "e", "t", "a", " ", "n", "a", "m", "e", "=", "\"", "v", "i", "e", "w", "p", "o", "r", "t", "\"", " ", "c", "o", "n", "t", "e", "n", "t", "=", "\"", "w", "i", "d", "t", "h", "=", "d", "e", "v", "i", "c", "e", "-", "w", "i", "d", "t", "h", ",", " ", "i", "n", "i", "t", "i", "a", "l", "-", "s", "c", "a", "l", "e", "=", "1", ".", "0", "\"", ">", "\n">>

\* The option of that name, undefined when it is not given
Option(o, name) == IF name \in DOMAIN o THEN o[name] ELSE Undefined

IsFalse(v) == v.t = "boolean" /\ v.b = FALSE

AbsentOrTrue(v) == v.t = "undefined" \/ (v.t = "boolean" /\ v.b = TRUE)

\* s without the first occurrence of pat, if there is one
Without(s, pat) ==
    IF Contains(s, pat)
    THEN SubSeq(s, 1, FirstAt(s, pat) - 1) \o SubSeq(s, FirstAt(s, pat) + Len(pat), Len(s))
    ELSE s

\* C7: includeDoctype:false makes the document start with the <html> line, not the
\* DOCTYPE line; includeMetadata:false removes the charset and the viewport meta tags;
\* an option that is absent (or true) leaves its markup in; and the rest of the
\* document is the same whatever the two options and the elements are.
C7_DocumentOptions ==
    (html # Undefined) =>
        /\ html.t = "string"
        /\ LET h == html.s
               d == Option(options, "includeDoctype")
               md == Option(options, "includeMetadata")
           IN  /\ IsFalse(d) => (At(h, 1, HtmlLine) /\ ~Contains(h, <<"<", "!", "D", "O", "C", "T", "Y", "P", "E">>))
               /\ AbsentOrTrue(d) => At(h, 1, DoctypeLine \o HtmlLine)
               /\ IsFalse(md) => ~Contains(h, <<"<", "m", "e", "t", "a">>)
               /\ AbsentOrTrue(md) =>
                     (Contains(h, MetaCharsetLine) /\ Contains(h, MetaViewportLine))
               /\ Without(Without(Without(h, DoctypeLine), MetaCharsetLine), MetaViewportLine)
                  = generateDocument(elements,
                                     Options(Option(options, "title"), Bool(FALSE), Bool(FALSE))).s

\* C7 witness: a document of one element without DOCTYPE and with the meta tags.
C7_Witness ==
    /\ html # Undefined
    /\ html.t = "string"
    /\ elements.t = "array"
    /\ Len(elements.a) = 1
    /\ IsFalse(Option(options, "includeDoctype"))
    /\ Option(options, "includeMetadata") = Undefined
    /\ At(html.s, 1, HtmlLine)
    /\ Contains(html.s, MetaViewportLine)

\* The HTML of each element, joined with line breaks
RECURSIVE ElementsJoined(_)
ElementsJoined(els) ==
    IF Len(els) = 0 THEN <<>>
    ELSE IF Len(els) = 1 THEN _generateElement(els[1]).s
    ELSE ElementsJoined(SubSeq(els, 1, Len(els) - 1))
         \o <<"\n">> \o _generateElement(els[Len(els)]).s

\* The markup of the document around the body
WrapperMarkup ==
    {<<"<", "!", "D", "O", "C", "T", "Y", "P", "E">>,
     <<"<", "h", "t", "m", "l">>, <<"<", "/", "h", "t", "m", "l">>,
     <<"<", "h", "e", "a", "d">>, <<"<", "/", "h", "e", "a", "d">>,
     <<"<", "t", "i", "t", "l", "e">>, <<"<", "s", "t", "y", "l", "e">>,
     <<"<", "b", "o", "d", "y">>, <<"<", "/", "b", "o", "d", "y">>,
     <<"<", "m", "e", "t", "a">>}

\* s from the start i of a line on, four spaces put before each line that is not blank
RECURSIVE IndentedFrom(_, _)
IndentedFrom(s, i) ==
    LET breaks == {j \in i .. Len(s) : s[j] = "\n"}
        e == IF breaks = {} THEN Len(s) + 1 ELSE CHOOSE j \in breaks : \A k \in breaks : j <= k
        line == SubSeq(s, i, e - 1)
    IN  (IF NonBlank(line) THEN <<" ", " ", " ", " ">> ELSE <<>>)
        \o line
        \o (IF e <= Len(s) THEN <<"\n">> \o IndentedFrom(s, e + 1) ELSE <<>>)

\* C8: the fragment of an element sequence is the HTML of its elements joined with
\* line breaks, with none of the document's markup around it; and what the document
\* holds between the <body> line and </body> is that fragment, each line that is not
\* blank preceded by four spaces.
C8_FragmentIsBody ==
    (pc \in {"parsed", "supplied"} /\ elements.t = "array" /\ fragment # Undefined) =>
        /\ fragment.t = "string"
        /\ fragment.s = ElementsJoined(elements.a)
        /\ \A w \in WrapperMarkup : ~Contains(fragment.s, w)
        /\ html # Undefined =>
              /\ html.t = "string"
              /\ IsDocument(html.s)
              /\ BodyOf(html.s) = IndentedFrom(fragment.s, 1)

\* C8 witness: a fragment with a blank line and a line that is not, and its document.
C8_Witness ==
    /\ pc = "supplied"
    /\ elements = Arr(<<ParsedElement(TextType, <<" ">>, <<>>),
                        ParsedElement(ElementType.H2, <<"&">>, <<>>)>>)
    /\ fragment = Str(<<" ", "\n", "<", "h", "2", ">", "&", "a", "m", "p", ";", "<", "/", "h", "2", ">">>)
    /\ html # Undefined
    /\ html.t = "string"
    /\ BodyOf(html.s) = <<" ", "\n", " ", " ", " ", " ", "<", "h", "2", ">", "&", "a", "m", "p", ";", "<", "/", "h", "2", ">">>

\* The element is missing
Missing(e) == e.t \in {"null", "undefined"}

\* The kind of an element, empty when it has none
KindOf(e) == IF "type" \in DOMAIN e /\ e.type.t = "string" THEN e.type.s ELSE <<>>

\* The escaped text of an element (nothing when its content is not a string)
EscapedText(e) ==
    IF "content" \in DOMAIN e /\ e.content.t = "string" THEN CharSubst(e.content.s) ELSE <<>>

\* The children of an element (none when it has no array of children)
ChildrenOf(e) ==
    IF "children" \in DOMAIN e /\ e.children.t = "array" THEN e.children.a ELSE <<>>

\* The template of each kind
RECURSIVE ExpectedHtml(_)
RECURSIVE ExpectedInline(_)
ExpectedInline(es) ==
    IF Len(es) = 0 THEN <<>> ELSE ExpectedHtml(Head(es)) \o ExpectedInline(Tail(es))

ExpectedHtml(e) ==
    IF Missing(e) THEN <<>>
    ELSE
        CASE KindOf(e) = <<"h", "1">> -> <<"<", "h", "1", ">">> \o EscapedText(e) \o <<"<", "/", "h", "1", ">">>
          [] KindOf(e) = <<"h", "2">> -> <<"<", "h", "2", ">">> \o EscapedText(e) \o <<"<", "/", "h", "2", ">">>
          [] KindOf(e) = <<"s", "t", "r", "o", "n", "g">> ->
                <<"<", "s", "t", "r", "o", "n", "g", ">">> \o EscapedText(e)
                \o <<"<", "/", "s", "t", "r", "o", "n", "g", ">">>
          [] KindOf(e) = <<"e", "m">> -> <<"<", "e", "m", ">">> \o EscapedText(e) \o <<"<", "/", "e", "m", ">">>
          [] KindOf(e) = <<"t", "e", "x", "t">> -> EscapedText(e)
          [] KindOf(e) = <<"p">> -> <<"<", "p", ">">> \o ExpectedInline(ChildrenOf(e)) \o <<"<", "/", "p", ">">>
          [] OTHER -> <<>>

RECURSIVE ExpectedLines(_)
ExpectedLines(es) ==
    IF Len(es) = 0 THEN <<>>
    ELSE IF Len(es) = 1 THEN ExpectedHtml(es[1])
    ELSE ExpectedHtml(Head(es)) \o <<"\n">> \o ExpectedLines(Tail(es))

\* C9: each element is rendered by the template of its kind (h1, h2, strong, em in
\* their tags around the escaped text, text as the escaped text alone, p as <p>, its
\* children's renderings one after the other, </p>); a missing element, one without a
\* kind and one of any other kind give the empty string; and rendering does not throw.
C9_TemplateOfEachKind ==
    (pc \in {"parsed", "supplied"}) =>
        /\ (fragment # Undefined) =>
              /\ fragment.t = "string"
              /\ elements.t = "array" => fragment.s = ExpectedLines(elements.a)
        /\ (html # Undefined) => html.t = "string"

\* C9 witness: a paragraph holding a missing child, a child of unknown kind and a
\* paragraph, followed by an element of unknown kind, has been rendered.
C9_Witness ==
    /\ pc = "supplied"
    /\ elements.t = "array"
    /\ Len(elements.a) = 2
    /\ KindOf(elements.a[2]) = <<"d", "i", "v">>
    /\ fragment = Str(<<"<", "p", ">", "<", "p", ">", "a", "<", "/", "p", ">", "<", "/", "p", ">", "\n">>)


\* The positions of the stars of a span
Stars(s) == {i \in 1 .. Len(s) : s[i] = "*"}

Least(S) == CHOOSE i \in S : \A j \in S : i <= j

\* A span tokenized for italics only: the first two stars delimit an Italic leaf,
\* the text before them is a Text leaf unless empty, and so on after the second
\* star; a span with fewer than two stars is one Text leaf.
RECURSIVE ItalicOnly(_)
ItalicOnly(s) ==
    IF Len(s) = 0 THEN <<>>
    ELSE IF Cardinality(Stars(s)) < 2 THEN <<TextLeaf(s)>>
    ELSE
        LET i == Least(Stars(s))
            j == Least(Stars(s) \ {i})
        IN  (IF i > 1 THEN <<TextLeaf(SubSeq(s, 1, i - 1))>> ELSE <<>>)
            \o <<ItalicLeaf(SubSeq(s, i + 1, j - 1))>>
            \o ItalicOnly(SubSeq(s, j + 1, Len(s)))

\* The opening ** of the first complete bold pair of a span: the first ** that has
\* another ** after its two stars (0 when the span has no complete pair).
BoldOpen(s) ==
    LET opens == {i \in DoubleStars(s) : \E j \in DoubleStars(s) : j >= i + 2}
    IN  IF opens = {} THEN 0 ELSE Least(opens)

\* The closing ** of the pair opened at i
BoldClose(s, i) == Least({j \in DoubleStars(s) : j >= i + 2})

\* Bold first: the first complete pair is one Bold leaf of the raw text between its
\* delimiters, the text before it is tokenized for italics only, the text after it
\* is tokenized again; a span without a complete pair is tokenized for italics.
RECURSIVE BoldFirst(_)
BoldFirst(s) ==
    IF BoldOpen(s) = 0 THEN ItalicOnly(s)
    ELSE
        LET i == BoldOpen(s)
            j == BoldClose(s, i)
        IN  ItalicOnly(SubSeq(s, 1, i - 1))
            \o <<BoldLeaf(SubSeq(s, i + 2, j - 1))>>
            \o BoldFirst(SubSeq(s, j + 2, Len(s)))

\* C11: bold binds tighter than italic: the children of every paragraph line are
\* its bold-first tokenization: the first complete **...** pair of each remaining
\* span is one Bold leaf of the raw text between the delimiters (stars inside it
\* literal), the text before the pair is tokenized for italics only, and the text
\* after the closing ** is tokenized the same way; Italic leaves come only from
\* the text before a pair or from a span without a complete pair.
C11_BoldBindsTighter ==
    Parsed =>
        LET ls == SourceLines(markdownText.s)
        IN  \A k \in 1 .. Len(ls) :
                IsParagraphLine(ls[k]) =>
                    /\ k \in 1 .. Len(elements.a)
                    /\ elements.a[k] = Para(BoldFirst(ls[k]))

\* C11 witness: the line **a*b** has been parsed to one Bold leaf holding a*b, the
\* star kept and no Italic leaf made.
C11_Witness ==
    /\ Parsed
    /\ markdownText.s = <<"*", "*", "a", "*", "b", "*", "*">>
    /\ elements = Arr(<<Para(<<BoldLeaf(<<"a", "*", "b">>)>>)>>)


\* A string with its stars taken out
NoStars(s) == SelectSeq(s, LAMBDA c : c # "*")

\* The texts of a sequence of leaves, one after the other
RECURSIVE TextsJoined(_)
TextsJoined(es) ==
    IF Len(es) = 0 THEN <<>> ELSE Head(es).content.s \o TextsJoined(Tail(es))

IsParagraph(e) == e.type = Str(<<"p">>)

\* C12: no paragraph that parse produces holds a Text leaf with empty text, every
\* paragraph has at least one child, and the children are in the left-to-right
\* order of the line: their texts, one after the other, are the characters of the
\* line that are not stars.
C12_NoEmptyTextInOrder ==
    Parsed =>
        LET ls == SourceLines(markdownText.s)
        IN  /\ Len(elements.a) = Len(ls)
            /\ \A k \in 1 .. Len(elements.a) :
                IsParagraph(elements.a[k]) =>
                    LET cs == elements.a[k].children.a
                    IN  /\ Len(cs) >= 1
                        /\ \A c \in 1 .. Len(cs) : cs[c] # TextLeaf(<<>>)
                        /\ NoStars(TextsJoined(cs)) = NoStars(ls[k])

\* C12 witness: the line **b**a* has been parsed, its first child the Bold leaf and
\* its second the Text leaf a*.
C12_Witness ==
    /\ Parsed
    /\ markdownText.s = <<"*", "*", "b", "*", "*", "a", "*">>
    /\ Len(elements.a) = 1
    /\ IsParagraph(elements.a[1])
    /\ elements.a[1].children.a[1] = BoldLeaf(<<"b">>)
    /\ Len(elements.a[1].children.a) = 2


\* The text a top-level node stands for: a heading's text after its marker, a
\* paragraph's children, delimiters restored
HeadingMarker(e) ==
    IF e.type = Str(<<"h", "1">>) THEN <<"#", " ">>
    ELSE IF e.type = Str(<<"h", "2">>) THEN <<"#", "#", " ">>
    ELSE <<>>

\* C13: for a string input, parse gives exactly one top-level node for each line
\* that is not empty once trimmed, in the order of the lines; each node is an h1,
\* an h2 or a paragraph; the node holds the characters of the trimmed line (a
\* heading: all of them after the marker; a paragraph: all of them but the stars),
\* so the white space around the line is in no node's text.
C13_OneNodePerLine ==
    Parsed =>
        LET ls == SourceLines(markdownText.s)
        IN  /\ elements.t = "array"
            /\ Len(elements.a) = Len(ls)
            /\ \A k \in 1 .. Len(elements.a) :
                LET e == elements.a[k]
                IN  /\ e.type \in {Str(<<"h", "1">>), Str(<<"h", "2">>), Str(<<"p">>)}
                    /\ IsParagraph(e) =>
                        /\ e.content.s = <<>>
                        /\ NoStars(TextsJoined(e.children.a)) = NoStars(ls[k])
                    /\ ~IsParagraph(e) =>
                        /\ e.children.a = <<>>
                        /\ HeadingMarker(e) \o e.content.s = ls[k]

\* C13 witness: a document of three lines, one of them blank and the first with
\* white space before its text, has been parsed to two nodes.
C13_Witness ==
    /\ Parsed
    /\ Len(splitChars(markdownText.s, "\n")) = 3
    /\ markdownText.s[1] = " "
    /\ Len(elements.a) = 2
    /\ elements.a[1] = Para(<<TextLeaf(<<"a">>)>>)


\* A leaf written back as Markdown: a Text leaf is its text, a Bold leaf its text
\* between ** and **, an Italic leaf its text between * and *
Written(e) ==
    IF e.type = Str(<<"s", "t", "r", "o", "n", "g">>)
        THEN <<"*", "*">> \o e.content.s \o <<"*", "*">>
    ELSE IF e.type = Str(<<"e", "m">>)
        THEN <<"*">> \o e.content.s \o <<"*">>
    ELSE e.content.s

RECURSIVE WrittenAll(_)
WrittenAll(es) == IF Len(es) = 0 THEN <<>> ELSE Written(Head(es)) \o WrittenAll(Tail(es))

\* C17: inline tokenization loses and invents no characters: the children of every
\* paragraph, written back in order (Text as its text, Bold as ** text **, Italic
\* as * text *), give exactly the trimmed source line.
C17_TokensGiveBackTheLine ==
    Parsed =>
        LET ls == SourceLines(markdownText.s)
        IN  /\ Len(elements.a) = Len(ls)
            /\ \A k \in 1 .. Len(ls) :
                IsParagraphLine(ls[k]) =>
                    /\ IsParagraph(elements.a[k])
                    /\ \A c \in 1 .. Len(elements.a[k].children.a) :
                        elements.a[k].children.a[c].type
                            \in {Str(<<"t", "e", "x", "t">>), Str(<<"s", "t", "r", "o", "n", "g">>),
                                 Str(<<"e", "m">>)}
                    /\ WrittenAll(elements.a[k].children.a) = ls[k]

\* C17 witness: the line *a**b** has been parsed to a Text, a Bold and nothing
\* else, and written back it is the line.
C17_Witness ==
    /\ Parsed
    /\ markdownText.s = <<"*", "a", "*", "*", "b", "*", "*">>
    /\ elements = Arr(<<Para(<<TextLeaf(<<"*", "a">>), BoldLeaf(<<"b">>)>>)>>)
    /\ WrittenAll(elements.a[1].children.a) = markdownText.s


(***************************************************************************)
(* The properties of lab2                                                  *)
(***************************************************************************)
\* The references of the heap
Refs == DOMAIN Constructed

\* The ID of the object a reference names, in a heap
IdOf(heap, r) == IF "_deviceId" \in DOMAIN heap[r] THEN heap[r]._deviceId ELSE heap[r].deviceId

\* The references of a device list whose object has the ID
WithId(heap, devs, id) == {devs[k] : k \in {j \in 1 .. Len(devs) : IdOf(heap, devs[j]) = id}}

\* An ID is registered in a device list
Registered(heap, devs, id) == WithId(heap, devs, id) # {}

\* A value that is no device: not an object, or an object without a getDeviceType
NonDevice(v) == "getDeviceType" \notin Methods(Deref(call.before.objects, v))

\* The call just made is one the claim calls failing
FailingCall ==
    \/ /\ call.op = "addDevice"
       /\ \/ NonDevice(call.arg)
          \/ /\ call.arg.t = "ref"
             /\ Registered(call.before.objects, call.before.devices,
                           IdOf(call.before.objects, call.arg.ref))
    \/ /\ call.op \in {"removeDevice", "turnOnDevice", "turnOffDevice"}
       /\ ~Registered(call.before.objects, call.before.devices, call.arg)

NothingChanged == devices = call.before.devices /\ objects = call.before.objects

\* An object but for its on/off state
ButOnOff(o) == [f \in DOMAIN o \ {"_isOn"} |-> o[f]]

InRange(v, lo, hi) == v.t = "number" /\ "n" \in DOMAIN v /\ v.n >= lo /\ v.n <= hi

\* The field a setter writes, and the bounds of its range
SetterField(method) ==
    CASE method = "setBrightness" -> "_brightness"
      [] method = "setOpenPercentage" -> "_openPercentage"
      [] method = "setVolume" -> "_volume"
      [] method = "setTemperature" -> "_temperature"

Lowest(method) == IF method = "setTemperature" THEN 16 ELSE 0

Highest(method) == IF method = "setTemperature" THEN 32 ELSE 100

RangeSetters == {"setBrightness", "setOpenPercentage", "setVolume", "setTemperature"}

\* C15: the setters validate their range: setVolume, setBrightness and
\* setOpenPercentage with a value outside 0..100, and setTemperature with one
\* outside 16..32, throw and leave the stored value as it was; a value in the range
\* is stored; so the brightness, the temperature, the open percentage and the
\* volume are within their range after any sequence of setter calls.
C15_SettersKeepRange ==
    /\ call.op \in RangeSetters =>
        LET self == call.invoked[1].ref
            field == SetterField(call.op)
        IN  IF InRange(call.arg, Lowest(call.op), Highest(call.op))
            THEN call.error = NoError /\ objects[self][field] = call.arg
            ELSE call.error # NoError
                 /\ objects[self][field] = call.before.objects[self][field]
    /\ InRange(objects["lamp"]._brightness, 0, 100)
    /\ InRange(objects["ac"]._temperature, 16, 32)
    /\ InRange(objects["curtain"]._openPercentage, 0, 100)
    /\ InRange(objects["tv"]._volume, 0, 100)


\* C16: applyScene invokes every registered action exactly once, in the order the
\* actions were added, each with its own device as this; an action that throws is
\* caught and the later actions still run; applyScene itself does not throw.
C16_EveryActionRunsOnce ==
    call.op = "applyScene" =>
        /\ call.error = NoError
        /\ call.invoked = [i \in 1 .. Len(actions) |-> actions[i].device]


\* The devices that the logged calls leave: those of the addDevice calls that no
\* later removeDevice call took out by its ID, in the order of the log
StillThere(l) ==
    LET removedLater(i) ==
            \E j \in (i + 1) .. Len(l) :
                /\ l[j].op = "removeDevice"
                /\ l[j].arg = IdOf(objects, l[i].arg.ref)
        kept == SelectSeq([i \in 1 .. Len(l) |-> i],
                          LAMBDA i : l[i].op = "addDevice" /\ ~removedLater(i))
    IN  [k \in 1 .. Len(kept) |-> l[kept[k]].arg.ref]

\* C18: after any sequence of addDevice and removeDevice calls, failing ones
\* included, the IDs of the device list are pairwise distinct, the list holds
\* exactly the devices added and not removed since, in the order they were added,
\* and an ID that is not in the list, one removed before included, can be added.
C18_DeviceListIsTheRegister ==
    /\ \A i \in 1 .. Len(devices) : \A j \in 1 .. Len(devices) :
        IdOf(objects, devices[i]) = IdOf(objects, devices[j]) => i = j
    /\ devices = StillThere(log)
    /\ (/\ call.op = "addDevice"
        /\ ~NonDevice(call.arg)
        /\ ~Registered(call.before.objects, call.before.devices,
                       IdOf(call.before.objects, call.arg.ref)))
        => /\ call.error = NoError
           /\ devices = Append(call.before.devices, call.arg.ref)

\* C18 witness: the lamp was added, its ID 001 removed, and the spare light, which
\* has the same ID, added: the list holds the spare light alone.
C18_Witness ==
    /\ log = <<[op |-> "addDevice", arg |-> Ref("lamp")],
               [op |-> "removeDevice", arg |-> Id("0", "0", "1")],
               [op |-> "addDevice", arg |-> Ref("spare")]>>
    /\ call.op = "addDevice"
    /\ call.error = NoError
    /\ devices = <<"spare">>

====
